---- MODULE Spec2Model ----
(***************************************************************************)
(* A model of squery_lite/squery.py: Connection, Cursor and Database with  *)
(* its transaction() context manager, over a model of the sqlite3 engine   *)
(* calls the code makes (manual isolation, WAL snapshots for a database    *)
(* file, one private database per ':memory:' handle).                      *)
(*                                                                         *)
(* The caller is one thread.  A transaction() scope is entered by          *)
(* TransactionEnter (the code up to the yield), its body runs as further   *)
(* actions, and it is left by TransactionExitDone / TransactionExitRaise   *)
(* (the code after the yield).  Lifecycle calls on the Database (close,    *)
(* reconnect, commit, rollback) are made between scopes, not inside a      *)
(* body.                                                                   *)
(***************************************************************************)
EXTENDS Integers, Sequences, FiniteSets, TLC

\* ---------------------------------------------------------------- bounds
MaxHandles == 2        \* sqlite3 handles ever opened
MaxWrites == 1         \* write statements ever executed

Handles == 1..MaxHandles
Conns == 1..MaxHandles \* every Connection object opens a handle of its own
Vals == 1..MaxWrites
\* a database: 0 is the database file that is at the path at first and
\* 0 - h the file handle h creates there later; h is the private db of
\* handle h
Dbs == (0 - MaxHandles)..MaxHandles
NoFile == 0 - (MaxHandles + 1)  \* in place of a database: no file at the path

MEMORY == ":memory:"
FILE == "foo.db"
Paths == {FILE, MEMORY}

PRIMARY == 1           \* the Connection object held in Database.conn

MaxUnits == 3          \* migration units of the migration source
MaxRuns == 3           \* runs of the migration runner

Units == 1..MaxUnits   \* the versions, in the order they are applied

VARIABLES
    path,        \* Connection object -> its path
    handles,     \* sqlite3 handle -> its engine state
    committed,   \* database -> the committed writes
    connHandle,  \* Connection object -> its _conn handle
    nconns,      \* Connection objects constructed so far
    scopes,      \* the stack of open transaction() scopes
    nwrites,     \* write statements executed so far
    closeCalled, \* Database.close() was called at least once
    sib,         \* sibling Connection -> where its transaction() scope is
    last,        \* the operation just made: calls sent, outcome
    cursors,     \* the Cursor objects made by the calls given with arguments
    call,        \* the call just made with its arguments, and what it gave
    mig,         \* the runs of the migration runner so far, and the last one
    file,        \* the database the file at the path FILE is, or NoFile
    registry     \* the funcs and aggregates lists, and what each handle has

vars == <<path, handles, committed, connHandle, nconns, scopes, nwrites,
          closeCalled, sib, last, cursors, call, mig, file, registry>>

\* ------------------------------------------------------ the sqlite engine
\* An engine state threaded through one handler:
\*   H handles, C committed, K connHandle, P path, n nconns, F file,
\*   calls, err.
NoErr == "none"

FreshHandle == [st |-> "unused", txn |-> "none", pend |-> {}, snap |-> {},
                db |-> 0, jm |-> "delete", iso |-> "deferred"]

Ok(S) == S.err = NoErr

Raise(S, e) == [S EXCEPT !.err = e]

Log(S, h, c, by, stmt, ok) ==
    [S EXCEPT !.calls = Append(@, [h |-> h, c |-> c, by |-> by,
                                   stmt |-> stmt, ok |-> ok])]

\* Another handle on the same database holds the write lock.
OtherWriter(H, h) ==
    \E g \in Handles \ {h} :
        H[g].st = "open" /\ H[g].db = H[h].db /\ H[g].txn = "write"

\* What a SELECT on handle h returns.
View(H, C, h) ==
    CASE H[h].txn = "read" -> H[h].snap
      [] H[h].txn = "write" -> C[H[h].db] \cup H[h].pend
      [] OTHER -> C[H[h].db]

\* (mutant) BEGIN EXCLUSIVE is granted while another handle holds the write
\* lock
SqlBeginShared(S, h, c, by, excl) ==
    LET stmt == IF excl THEN "BEGIN EXCLUSIVE;" ELSE "BEGIN;" IN
    IF S.H[h].st # "open"
    THEN Raise(Log(S, h, c, by, stmt, FALSE), "ProgrammingError")
    ELSE IF S.H[h].txn # "none"
    THEN Raise(Log(S, h, c, by, stmt, FALSE), "OperationalError")
    ELSE [Log(S, h, c, by, stmt, TRUE) EXCEPT
            !.H[h].txn = IF excl THEN "write" ELSE "begun"]

\* cursor.execute('BEGIN;') / cursor.execute('BEGIN EXCLUSIVE;')
SqlBegin(S, h, c, by, excl) ==
    LET stmt == IF excl THEN "BEGIN EXCLUSIVE;" ELSE "BEGIN;" IN
    IF S.H[h].st # "open"
    THEN Raise(Log(S, h, c, by, stmt, FALSE), "ProgrammingError")
    ELSE IF S.H[h].txn # "none"
    THEN Raise(Log(S, h, c, by, stmt, FALSE), "OperationalError")
    ELSE IF excl /\ OtherWriter(S.H, h)
    THEN Raise(Log(S, h, c, by, stmt, FALSE), "OperationalError")
    ELSE [Log(S, h, c, by, stmt, TRUE) EXCEPT
            !.H[h].txn = IF excl THEN "write" ELSE "begun"]

\* cursor.execute(<a write statement>) writing value v
SqlWrite(S, h, c, by, v) ==
    IF S.H[h].st # "open"
    THEN Raise(Log(S, h, c, by, "write", FALSE), "ProgrammingError")
    ELSE IF OtherWriter(S.H, h)
            \/ (S.H[h].txn = "read" /\ S.H[h].snap # S.C[S.H[h].db])
    THEN Raise(Log(S, h, c, by, "write", FALSE), "OperationalError")
    ELSE IF S.H[h].txn = "none"
    THEN [Log(S, h, c, by, "write", TRUE) EXCEPT
            !.C[S.H[h].db] = @ \cup {v}]
    ELSE [Log(S, h, c, by, "write", TRUE) EXCEPT
            !.H[h].txn = "write", !.H[h].snap = {},
            !.H[h].pend = @ \cup {v}]

\* cursor.execute(<a SELECT>)
SqlRead(S, h, c, by) ==
    IF S.H[h].st # "open"
    THEN Raise(Log(S, h, c, by, "read", FALSE), "ProgrammingError")
    ELSE IF S.H[h].txn = "begun"
    THEN [Log(S, h, c, by, "read", TRUE) EXCEPT
            !.H[h].txn = "read", !.H[h].snap = S.C[S.H[h].db]]
    ELSE Log(S, h, c, by, "read", TRUE)

\* _conn.commit(); fail: the engine refuses to commit the rows written (a
\* deferred constraint they violate), and the transaction stays open.
SqlCommit(S, h, c, by, fail) ==
    IF S.H[h].st # "open"
    THEN Raise(Log(S, h, c, by, "commit", FALSE), "ProgrammingError")
    ELSE IF S.H[h].txn = "write" /\ S.H[h].pend # {} /\ fail
    THEN Raise(Log(S, h, c, by, "commit", FALSE), "IntegrityError")
    ELSE [Log(S, h, c, by, "commit", TRUE) EXCEPT
            !.C[S.H[h].db] = @ \cup S.H[h].pend,
            !.H[h].txn = "none", !.H[h].pend = {}, !.H[h].snap = {}]

\* _conn.rollback()
SqlRollback(S, h, c, by) ==
    IF S.H[h].st # "open"
    THEN Raise(Log(S, h, c, by, "rollback", FALSE), "ProgrammingError")
    ELSE [Log(S, h, c, by, "rollback", TRUE) EXCEPT
            !.H[h].txn = "none", !.H[h].pend = {}, !.H[h].snap = {}]

\* _conn.close(): drops an open transaction; a private in-memory database
\* goes with its handle.  Closing a closed handle is accepted.
SqlClose(S, h, c, by) ==
    IF S.H[h].st # "open"
    THEN Log(S, h, c, by, "close", TRUE)
    ELSE [Log(S, h, c, by, "close", TRUE) EXCEPT
            !.H[h].st = "closed", !.H[h].txn = "none",
            !.H[h].pend = {}, !.H[h].snap = {},
            !.C[S.H[h].db] = IF S.H[h].db <= 0 THEN @ ELSE {}]

\* connection.cursor()
SqlCursor(S, h, c, by) ==
    IF S.H[h].st # "open"
    THEN Raise(Log(S, h, c, by, "cursor", FALSE), "ProgrammingError")
    ELSE Log(S, h, c, by, "cursor", TRUE)

\* the database a handle h opened on path p is on
DbAt(S, h, p) ==
    IF p = MEMORY THEN h ELSE IF S.F = NoFile THEN 0 - h ELSE S.F

\* sqlite3.connect(path): a new handle; ':memory:' names a new private
\* database each time, a file path the database file that is there, which
\* is created, empty, when there is none.
SqlConnect(S, h, c) ==
    [Log(S, h, c, "connect", "connect", TRUE) EXCEPT
        !.H[h] = [FreshHandle EXCEPT
                    !.st = "open",
                    !.db = DbAt(S, h, S.P[c]),
                    !.jm = IF S.P[c] = MEMORY THEN "memory" ELSE "delete"],
        !.K[c] = h,
        !.F = IF S.P[c] = MEMORY THEN @ ELSE DbAt(S, h, S.P[c])]

\* cur.execute('PRAGMA journal_mode=WAL;'): an in-memory database keeps
\* journal mode "memory" and the statement still succeeds.
SqlPragmaWal(S, h, c) ==
    [Log(S, h, c, "connect", "PRAGMA journal_mode=WAL;", TRUE) EXCEPT
        !.H[h].jm = IF @ = "memory" THEN "memory" ELSE "wal"]

\* -------------------------------------------------------------- Connection
HasUnused(H) == \E h \in Handles : H[h].st = "unused"

NextHandle(H) ==
    CHOOSE h \in Handles :
        H[h].st = "unused" /\ \A g \in Handles : g < h => H[g].st # "unused"

\* the two lists of callables a Connection keeps
Kinds == {"funcs", "aggregates"}

\* the callables a caller has to give: a scalar function and an aggregate
Callables == [funcs |-> {"addtwo"}, aggregates |-> {"Concat"}]

\* the lists a caller can give to the constructor: none (the parameter's
\* default is used), or a list of its own with some of the callables in it
Given ==
    [Kinds -> {[given |-> FALSE, items |-> {}]}
              \cup {[given |-> TRUE, items |-> {}]}]
    \cup {[k \in Kinds |-> [given |-> TRUE, items |-> Callables[k]]]}

NoLists == [k \in Kinds |-> [given |-> FALSE, items |-> {}]]

\* dflt: the list objects that are the defaults of __init__'s parameters
\* funcs=[] and aggregates=[], made once when the class is defined; ref and
\* own: the list object self.funcs / self.aggregates of a Connection is,
\* the default one or one of its own; reg: the callables registered on a
\* sqlite3 handle
NoRegistry ==
    [dflt |-> [k \in Kinds |-> {}],
     ref |-> [c \in Conns |-> [k \in Kinds |-> "none"]],
     own |-> [c \in Conns |-> [k \in Kinds |-> {}]],
     reg |-> [h \in Handles |-> {}]]

\* what the list self.funcs / self.aggregates of Connection c holds
ListOf(X, c, k) ==
    IF X.ref[c][k] = "default" THEN X.dflt[k] ELSE X.own[c][k]

\* connect: for fn in self.funcs: self.add_func(fn); for aggr in
\* self.aggregates: self.add_aggregate(aggr)
RegisterLists(S, h, c) ==
    [S EXCEPT !.X.reg[h] = UNION {ListOf(S.X, c, k) : k \in Kinds}]

\* Connection.connect
ConnectionConnect(S, c) ==
    LET h == NextHandle(S.H)
        S1 == SqlConnect(S, h, c)
        S2 == [S1 EXCEPT !.H[h].iso = "manual"]
    IN  SqlPragmaWal(RegisterLists(S2, h, c), h, c)

\* Connection.add_func / add_aggregate: create_function / create_aggregate
\* on the handle; the lists are left alone
ConnectionAddFunc(S, c, f) ==
    LET h == S.K[c]
    IN  IF S.H[h].st # "open"
        THEN Raise(Log(S, h, c, "add_func", "create_function", FALSE),
                   "ProgrammingError")
        ELSE [Log(S, h, c, "add_func", "create_function", TRUE)
                 EXCEPT !.X.reg[h] = @ \cup {f}]

\* conn.funcs.append(f) / conn.aggregates.append(f) by the caller: the list
\* object is changed in place, for every Connection that holds it
ListAppend(S, c, k, f) ==
    IF S.X.ref[c][k] = "default"
    THEN [S EXCEPT !.X.dflt[k] = @ \cup {f}]
    ELSE [S EXCEPT !.X.own[c][k] = @ \cup {f}]

\* (mutant) the handle is closed before the commit
ConnectionCloseFirst(S, c, fail) ==
    SqlCommit(SqlClose(S, S.K[c], c, "close"), S.K[c], c, "close", fail)

\* (mutant) close() returns at once on a Connection that is closed
ConnectionCloseIdempotent(S, c, fail) ==
    IF S.H[S.K[c]].st # "open" THEN S
    ELSE LET S1 == SqlCommit(S, S.K[c], c, "close", fail)
         IN  IF Ok(S1) THEN SqlClose(S1, S.K[c], c, "close") ELSE S1

\* Connection.close
ConnectionClose(S, c, fail) ==
    LET S1 == SqlCommit(S, S.K[c], c, "close", fail)
    IN  IF Ok(S1) THEN SqlClose(S1, S.K[c], c, "close") ELSE S1

\* Connection.__init__ of a new Connection object c
ConnectionInitWith(S, c, p, L) ==
    ConnectionConnect(
        [S EXCEPT !.P[c] = p,
                  !.X.ref[c] = [k \in Kinds |->
                                  IF L[k].given THEN "own" ELSE "default"],
                  !.X.own[c] = [k \in Kinds |-> L[k].items]], c)

\* Connection(path): funcs and aggregates are the parameters' defaults
ConnectionInit(S, c, p) ==
    ConnectionInitWith(S, c, p, NoLists)

\* (mutant) new() leaves the path out: the new Connection gets the default
ConnectionNewDefaultPath(S, c) ==
    ConnectionInit([S EXCEPT !.n = @ + 1], S.n + 1, MEMORY)

\* Connection.new on Connection c: the new Connection object is S.n of the
\* result
ConnectionNew(S, c) ==
    ConnectionInit([S EXCEPT !.n = @ + 1], S.n + 1, S.P[c])

\* ------------------------------------------------------------------ Cursor
\* Cursor.__init__: connection.cursor()
CursorInit(S, c) == SqlCursor(S, S.K[c], c, "cursor")

\* ---------------------------------------------------------------- Database
\* what a body raises: an error (a subclass of Exception), or an exception
\* that is none (KeyboardInterrupt, SystemExit, GeneratorExit)
BodyErrs == {"RuntimeError"}

Interrupts == {"KeyboardInterrupt"}

\* caught by "except Exception"
IsException(e) == e \notin Interrupts

\* (mutant) the cursor is made on the primary whatever new_connection says
TransactionConnPrimary(S, newc) == PRIMARY

\* the Connection transaction() makes its cursor on
TransactionConn(S, newc) == IF newc THEN S.n ELSE PRIMARY

\* (mutant) exclusive is ignored: 'BEGIN;' is sent in either case
TransactionBeginPlain(S, newc, excl) ==
    LET S1 == IF newc THEN ConnectionNew(S, PRIMARY) ELSE S
        c  == TransactionConn(S1, newc)
        S2 == CursorInit(S1, c)
    IN  IF Ok(S2) THEN SqlBegin(S2, S2.K[c], c, "transaction", FALSE) ELSE S2

\* Database.transaction up to the yield
TransactionBegin(S, newc, excl) ==
    LET S1 == IF newc THEN ConnectionNew(S, PRIMARY) ELSE S
        c  == TransactionConn(S1, newc)
        S2 == CursorInit(S1, c)
    IN  IF Ok(S2) THEN SqlBegin(S2, S2.K[c], c, "transaction", excl) ELSE S2

\* (mutant) the except clause without its rollback
TransactionExceptNoRollback(S, c, silent, e) ==
    IF silent THEN Raise(S, NoErr) ELSE Raise(S, e)

\* (mutant) the except clause takes no notice of silent
TransactionExceptLoud(S, c, silent, e) ==
    LET S1 == SqlRollback(Raise(S, NoErr), S.K[c], c, "transaction")
    IN  IF ~Ok(S1) THEN S1 ELSE Raise(S1, e)

\* the except clause: rollback, then return (silent) or re-raise e
TransactionExcept(S, c, silent, e) ==
    LET S1 == SqlRollback(Raise(S, NoErr), S.K[c], c, "transaction")
    IN  IF ~Ok(S1) THEN S1
        ELSE IF silent THEN S1
        ELSE Raise(S1, e)

\* (mutant) the commit on normal completion is left out
TransactionTryNoCommit(S, c, silent, bodyErr, fail) ==
    IF bodyErr = NoErr THEN S
    ELSE IF IsException(bodyErr)
    THEN TransactionExcept(S, c, silent, bodyErr)
    ELSE Raise(S, bodyErr)

\* the try block after the yield: bodyErr is what the body raised
TransactionTry(S, c, silent, bodyErr, fail) ==
    IF bodyErr = NoErr
    THEN LET S1 == SqlCommit(S, S.K[c], c, "transaction", fail)
         IN  IF Ok(S1) THEN S1
             ELSE TransactionExcept(S1, c, silent, S1.err)
    ELSE IF IsException(bodyErr)
    THEN TransactionExcept(S, c, silent, bodyErr)
    ELSE Raise(S, bodyErr)

\* (mutant) the spawned Connection is closed on success only
TransactionFinallyOnSuccess(S, c, newc, fail) ==
    IF newc /\ Ok(S)
    THEN ConnectionClose(S, c, fail)
    ELSE S

\* (mutant) the finally clause catches what close() raises and returns
TransactionFinallyQuiet(S, c, newc, fail) ==
    IF newc
    THEN LET S1 == ConnectionClose(Raise(S, NoErr), c, fail)
         IN  IF Ok(S1) THEN Raise(S1, S.err) ELSE Raise(S1, NoErr)
    ELSE S

\* the finally clause: an error raised by close() replaces the one in flight
TransactionFinally(S, c, newc, fail) ==
    IF newc
    THEN LET S1 == ConnectionClose(Raise(S, NoErr), c, fail)
         IN  IF Ok(S1) THEN Raise(S1, S.err) ELSE S1
    ELSE S

\* Database.transaction after the yield
TransactionEnd(S, sc, bodyErr, fail1, fail2) ==
    CHOOSE r \in {TransactionFinally(t, sc.conn, sc.newc, fail2) :
                    t \in {TransactionTry(S, sc.conn, sc.silent, bodyErr,
                                          fail1)}} : TRUE

\* Database.execute(<a write statement>): a new Cursor on the primary
DatabaseExecuteCall(S, v) ==
    LET S1 == CursorInit(S, PRIMARY)
    IN  IF Ok(S1) THEN SqlWrite(S1, S1.K[PRIMARY], PRIMARY, "execute", v)
        ELSE S1

\* Database.query(<a SELECT>)
DatabaseQueryCall(S) ==
    LET S1 == CursorInit(S, PRIMARY)
    IN  IF Ok(S1) THEN SqlRead(S1, S1.K[PRIMARY], PRIMARY, "execute") ELSE S1

\* (mutant) the lock is taken in a scope that ends at once, with its commit
AcquireLockScoped(S) ==
    LET S1 == CursorInit(S, PRIMARY)
        S2 == IF Ok(S1)
              THEN SqlBegin(S1, S1.K[PRIMARY], PRIMARY, "acquire_lock", TRUE)
              ELSE S1
    IN  IF Ok(S2)
        THEN SqlCommit(S2, S2.K[PRIMARY], PRIMARY, "acquire_lock", FALSE)
        ELSE S2

\* Database.acquire_lock
AcquireLockCall(S) ==
    LET S1 == CursorInit(S, PRIMARY)
    IN  IF Ok(S1)
        THEN SqlBegin(S1, S1.K[PRIMARY], PRIMARY, "acquire_lock", TRUE)
        ELSE S1

\* Database.commit
DatabaseCommitCall(S, fail) ==
    SqlCommit(S, S.K[PRIMARY], PRIMARY, "database", fail)

\* Database.rollback: rollback, then commit
DatabaseRollbackCall(S, fail) ==
    LET S1 == SqlRollback(S, S.K[PRIMARY], PRIMARY, "database")
    IN  IF Ok(S1) THEN SqlCommit(S1, S1.K[PRIMARY], PRIMARY, "database", fail)
        ELSE S1

\* Database.close
DatabaseCloseCall(S, fail) == ConnectionClose(S, PRIMARY, fail)

\* Database.reconnect: Connection.connect() stores a new handle in _conn.
\* The handle it replaces is closed when nothing refers to it any more
\* (gc), and stays open while a Cursor the caller kept still does.
DatabaseReconnectCall(S, gc) ==
    LET old == S.K[PRIMARY]
        S1 == ConnectionConnect(S, PRIMARY)
    IN  IF gc THEN SqlClose(S1, old, PRIMARY, "dealloc") ELSE S1

\* Database.drop: os.remove(path).  ':memory:' names no file; fail: the
\* file is there and cannot be removed.  The handles that are open on the
\* file stay on the database it was.
DatabaseDropCall(S, p, fail) ==
    IF p = MEMORY \/ S.F = NoFile
    THEN Raise(Log(S, 0, 0, "drop", "remove", FALSE), "FileNotFoundError")
    ELSE IF fail
    THEN Raise(Log(S, 0, 0, "drop", "remove", FALSE), "PermissionError")
    ELSE [Log(S, 0, 0, "drop", "remove", TRUE) EXCEPT !.F = NoFile]

\* Database.connect: Connection(database); the new Connection object is S.n
\* of the result
DatabaseConnectCall(S, p) ==
    ConnectionInit([S EXCEPT !.n = @ + 1], S.n + 1, p)

\* Database.recreate: drop(path), then connect(path), whose return value is
\* not kept: self.conn is not assigned, and the Connection just made is
\* closed when it is deallocated (gc).
DatabaseRecreateCall(S, p, fail, gc) ==
    LET S1 == DatabaseDropCall(S, p, fail)
        S2 == DatabaseConnectCall(S1, p)
    IN  IF ~Ok(S1) THEN S1
        ELSE IF gc THEN SqlClose(S2, S2.K[S2.n], S2.n, "dealloc") ELSE S2

\* A call the caller makes on a Connection object it kept: the sqlite3
\* calls reach _conn through Connection.__getattr__; close is
\* Connection.close.
ConnOps == {"cursor", "execute", "commit", "rollback", "close"}

ConnectionCall(S, c, op, v, fail) ==
    CASE op = "cursor" -> SqlCursor(S, S.K[c], c, "caller")
      [] op = "execute" -> SqlWrite(S, S.K[c], c, "caller", v)
      [] op = "commit" -> SqlCommit(S, S.K[c], c, "caller", fail)
      [] op = "rollback" -> SqlRollback(S, S.K[c], c, "caller")
      [] op = "close" -> ConnectionClose(S, c, fail)

\* ------------------------------------------------------------ state machine
Blank ==
    [H |-> [h \in Handles |-> FreshHandle], C |-> [d \in Dbs |-> {}],
     K |-> [c \in Conns |-> 0], P |-> [c \in Conns |-> "none"], n |-> 1,
     F |-> 0, X |-> NoRegistry, calls |-> <<>>, err |-> NoErr]

St ==
    [H |-> handles, C |-> committed, K |-> connHandle, P |-> path,
     n |-> nconns, F |-> file, X |-> registry, calls |-> <<>>,
     err |-> NoErr]

NoScope ==
    [conn |-> 0, cur |-> 0, silent |-> FALSE, newc |-> FALSE, wrote |-> {}]

\* the record of the operation just made, of Connection c and scope sc
Record(S, op, c, sc, excl, bodyErr) ==
    [op |-> op, conn |-> c, silent |-> sc.silent, newc |-> sc.newc,
     excl |-> excl, wrote |-> sc.wrote, bodyErr |-> bodyErr,
     calls |-> S.calls, out |-> IF Ok(S) THEN "return" ELSE "raise",
     err |-> S.err,
     wasClosed |-> /\ c # 0
                   /\ connHandle[c] # 0
                   /\ handles[connHandle[c]].st = "closed",
     closeCalled |-> \/ c = PRIMARY /\ closeCalled
                     \/ c # 0 /\ sib[c] \in {"released", "interrupted"},
     changed |-> S.H # handles \/ S.C # committed]

Store(S, op, c, sc, excl, bodyErr) ==
    /\ handles' = S.H
    /\ committed' = S.C
    /\ connHandle' = S.K
    /\ path' = S.P
    /\ nconns' = S.n
    /\ file' = S.F
    /\ registry' = S.X
    /\ last' = Record(S, op, c, sc, excl, bodyErr)
    /\ UNCHANGED <<cursors, call, mig>>

\* no call with arguments was made yet
NoCall == [fn |-> "none"]

\* the migration runner was not run yet
NoRun ==
    [source |-> 1, runs |-> 0, tried |-> <<>>, times |-> [u \in Units |-> 0],
     err |-> NoErr, version |-> 0, prevErr |-> NoErr, prevVersion |-> 0,
     prevSource |-> 0, ranOn |-> 0, before |-> {}]

Top == scopes[Len(scopes)]

Pop == SubSeq(scopes, 1, Len(scopes) - 1)

\* the state after construction, S being the engine after the constructor
InitAs(S) ==
    /\ path = S.P
    /\ handles = S.H
    /\ committed = S.C
    /\ connHandle = S.K
    /\ nconns = S.n
    /\ file = S.F
    /\ registry = S.X
    /\ last = [op |-> "Connection", conn |-> PRIMARY,
               silent |-> FALSE, newc |-> FALSE, excl |-> FALSE,
               wrote |-> {}, bodyErr |-> NoErr, calls |-> S.calls,
               out |-> "return", err |-> NoErr,
               wasClosed |-> FALSE, closeCalled |-> FALSE,
               changed |-> TRUE]
    /\ scopes = <<>>
    /\ nwrites = 0
    /\ closeCalled = FALSE
    /\ sib = [c \in Conns |-> "none"]
    /\ cursors = <<>>
    /\ call = NoCall
    /\ mig = NoRun

\* Database(Connection(path))
Init ==
    \E p \in Paths : InitAs(ConnectionInit(Blank, PRIMARY, p))

\* with db.transaction(silent, new_connection, exclusive) as cursor:
TransactionEnter(silent, newc, excl) ==
    /\ newc => HasUnused(handles)
    /\ LET S == TransactionBegin(St, newc, excl)
           c == TransactionConn(S, newc)
           sc == [conn |-> c, cur |-> S.K[c], silent |-> silent,
                  newc |-> newc, wrote |-> {}]
       IN  /\ scopes' = IF Ok(S) THEN Append(scopes, sc) ELSE scopes
           /\ sib' = IF newc
                     THEN [sib EXCEPT ![c] = IF Ok(S) THEN "active"
                                            ELSE "lost"]
                     ELSE sib
           /\ Store(S, "TransactionEnter", c, sc, excl, NoErr)
    /\ UNCHANGED <<nwrites, closeCalled>>

\* cursor.execute(<a write statement>) in the body of the innermost scope
CursorExecute ==
    /\ scopes # <<>>
    /\ nwrites < MaxWrites
    /\ LET v == nwrites + 1
           S == SqlWrite(St, Top.cur, Top.conn, "execute", v)
       IN  /\ scopes' = [scopes EXCEPT ![Len(scopes)].wrote =
                            IF Ok(S) THEN @ \cup {v} ELSE @]
           /\ Store(S, "CursorExecute", Top.conn, Top, FALSE, NoErr)
    /\ nwrites' = nwrites + 1
    /\ UNCHANGED <<closeCalled, sib>>

\* cursor.query(<a SELECT>) in the body of the innermost scope
CursorQuery ==
    /\ scopes # <<>>
    /\ LET S == SqlRead(St, Top.cur, Top.conn, "execute")
       IN  Store(S, "CursorQuery", Top.conn, Top, FALSE, NoErr)
    /\ UNCHANGED <<scopes, nwrites, closeCalled, sib>>

\* cursor.conn.close() in the body of the innermost scope
CursorConnClose(fail) ==
    /\ scopes # <<>>
    /\ Store(ConnectionCall(St, Top.conn, "close", 0, fail), "CursorConnClose",
             Top.conn, Top, FALSE, NoErr)
    /\ closeCalled' = (closeCalled \/ Top.conn = PRIMARY)
    /\ UNCHANGED <<scopes, nwrites, sib>>

\* the scope is left: bodyErr is NoErr when the body ran to its end
TransactionLeave(bodyErr, fail1, fail2) ==
    /\ scopes # <<>>
    /\ scopes' = Pop
    /\ \E S \in {TransactionEnd(St, Top, bodyErr, fail1, fail2)} :
          Store(S, "TransactionExit", Top.conn, Top, FALSE, bodyErr)
    /\ sib' = IF Top.newc
              THEN [sib EXCEPT ![Top.conn] =
                      IF bodyErr = NoErr \/ IsException(bodyErr)
                      THEN "released" ELSE "interrupted"]
              ELSE sib
    /\ UNCHANGED <<nwrites, closeCalled>>

TransactionExitDone(fail1, fail2) == TransactionLeave(NoErr, fail1, fail2)

TransactionExitRaise(e, fail2) == TransactionLeave(e, FALSE, fail2)

DatabaseExecute ==
    /\ nwrites < MaxWrites
    /\ Store(DatabaseExecuteCall(St, nwrites + 1), "DatabaseExecute",
             PRIMARY, NoScope, FALSE, NoErr)
    /\ nwrites' = nwrites + 1
    /\ UNCHANGED <<scopes, closeCalled, sib>>

DatabaseQuery ==
    /\ Store(DatabaseQueryCall(St), "DatabaseQuery", PRIMARY, NoScope, FALSE, NoErr)
    /\ UNCHANGED <<scopes, nwrites, closeCalled, sib>>

AcquireLock ==
    /\ Store(AcquireLockCall(St), "AcquireLock", PRIMARY, NoScope, FALSE, NoErr)
    /\ UNCHANGED <<scopes, nwrites, closeCalled, sib>>

DatabaseCommit(fail) ==
    /\ scopes = <<>>
    /\ Store(DatabaseCommitCall(St, fail), "DatabaseCommit", PRIMARY,
             NoScope, FALSE, NoErr)
    /\ UNCHANGED <<scopes, nwrites, closeCalled, sib>>

DatabaseRollback(fail) ==
    /\ scopes = <<>>
    /\ Store(DatabaseRollbackCall(St, fail), "DatabaseRollback", PRIMARY,
             NoScope, FALSE, NoErr)
    /\ UNCHANGED <<scopes, nwrites, closeCalled, sib>>

DatabaseClose(fail) ==
    /\ scopes = <<>>
    /\ Store(DatabaseCloseCall(St, fail), "DatabaseClose", PRIMARY,
             NoScope, FALSE, NoErr)
    /\ closeCalled' = TRUE
    /\ UNCHANGED <<scopes, nwrites, sib>>

DatabaseReconnect(gc) ==
    /\ scopes = <<>>
    /\ HasUnused(handles)
    /\ Store(DatabaseReconnectCall(St, gc), "DatabaseReconnect",
             PRIMARY, NoScope, FALSE, NoErr)
    /\ UNCHANGED <<scopes, nwrites, closeCalled, sib>>

DatabaseDrop(p, fail) ==
    /\ scopes = <<>>
    /\ Store(DatabaseDropCall(St, p, fail), "DatabaseDrop", PRIMARY,
             NoScope, FALSE, NoErr)
    /\ UNCHANGED <<scopes, nwrites, closeCalled, sib>>

DatabaseRecreate(p, fail, gc) ==
    /\ scopes = <<>>
    /\ HasUnused(handles)
    /\ Store(DatabaseRecreateCall(St, p, fail, gc), "DatabaseRecreate",
             PRIMARY, NoScope, FALSE, NoErr)
    /\ UNCHANGED <<scopes, nwrites, closeCalled, sib>>

\* the caller uses a sibling Connection it kept from a scope that has exited
UseConnection(c, op, fail) ==
    /\ sib[c] \in {"released", "interrupted"}
    /\ op = "execute" => nwrites < MaxWrites
    /\ Store(ConnectionCall(St, c, op, nwrites + 1, fail), "UseConnection",
             c, NoScope, FALSE, NoErr)
    /\ nwrites' = IF op = "execute" THEN nwrites + 1 ELSE nwrites
    /\ UNCHANGED <<scopes, closeCalled, sib>>

Next ==
    \/ \E silent, newc, excl \in BOOLEAN : TransactionEnter(silent, newc, excl)
    \/ CursorExecute
    \/ CursorQuery
    \/ \E fail1, fail2 \in BOOLEAN : TransactionExitDone(fail1, fail2)
    \/ \E e \in BodyErrs, fail2 \in BOOLEAN : TransactionExitRaise(e, fail2)
    \/ DatabaseExecute
    \/ DatabaseQuery
    \/ AcquireLock
    \/ \E fail \in BOOLEAN : DatabaseCommit(fail)
    \/ \E fail \in BOOLEAN : DatabaseRollback(fail)
    \/ \E fail \in BOOLEAN : DatabaseClose(fail)
    \/ \E gc \in BOOLEAN : DatabaseReconnect(gc)
    \/ \E c \in Conns, op \in ConnOps, fail \in BOOLEAN :
          UseConnection(c, op, fail)

Spec == Init /\ [][Next]_vars

\* ------------------------------------------- a body that is interrupted
\* transaction() scopes whose body raises an error or an exception that
\* "except Exception" does not catch
NextInterrupt ==
    \/ \E silent, newc, excl \in BOOLEAN : TransactionEnter(silent, newc, excl)
    \/ CursorExecute
    \/ CursorQuery
    \/ \E fail1, fail2 \in BOOLEAN : TransactionExitDone(fail1, fail2)
    \/ \E e \in BodyErrs \cup Interrupts, fail2 \in BOOLEAN :
          TransactionExitRaise(e, fail2)

SpecInterrupt == Init /\ [][NextInterrupt]_vars

\* ------------------------------- a body that closes its scope's connection
NextRelease ==
    \/ \E silent, newc, excl \in BOOLEAN : TransactionEnter(silent, newc, excl)
    \/ CursorExecute
    \/ \E fail \in BOOLEAN : CursorConnClose(fail)
    \/ \E fail1, fail2 \in BOOLEAN : TransactionExitDone(fail1, fail2)
    \/ \E e \in BodyErrs, fail2 \in BOOLEAN : TransactionExitRaise(e, fail2)

SpecRelease == Init /\ [][NextRelease]_vars

\* ------------------------------------------------ scopes within scopes
\* the single calling thread enters scopes, runs their bodies and leaves
\* them; a body that was entered comes to its end
NextNested ==
    \/ \E silent, newc, excl \in BOOLEAN : TransactionEnter(silent, newc, excl)
    \/ CursorExecute
    \/ CursorQuery
    \/ \E fail1, fail2 \in BOOLEAN : TransactionExitDone(fail1, fail2)
    \/ \E e \in BodyErrs, fail2 \in BOOLEAN : TransactionExitRaise(e, fail2)

\* the innermost scope is left, with or without an error of its body
Leave ==
    \/ \E fail1, fail2 \in BOOLEAN : TransactionExitDone(fail1, fail2)
    \/ \E e \in BodyErrs, fail2 \in BOOLEAN : TransactionExitRaise(e, fail2)

SpecNested == Init /\ [][NextNested]_vars /\ WF_vars(Leave)

\* ------------------------------------------- the callables of a Connection
\* db.conn.funcs.append(f) / db.conn.aggregates.append(f) by the caller
AppendCallable(k, f) ==
    /\ f \notin ListOf(registry, PRIMARY, k)
    /\ Store(ListAppend(St, PRIMARY, k, f), "AppendCallable", PRIMARY,
             NoScope, FALSE, NoErr)
    /\ UNCHANGED <<scopes, nwrites, closeCalled, sib>>

\* db.conn.add_func(f) / db.conn.add_aggregate(f) by the caller
AddCallable(f) ==
    /\ f \notin registry.reg[connHandle[PRIMARY]]
    /\ Store(ConnectionAddFunc(St, PRIMARY, f), "AddCallable", PRIMARY,
             NoScope, FALSE, NoErr)
    /\ UNCHANGED <<scopes, nwrites, closeCalled, sib>>

\* Database(Connection(path, funcs, aggregates))
InitRegistry ==
    \E p \in Paths, L \in Given :
        InitAs(ConnectionInitWith(Blank, PRIMARY, p, L))

\* a Database whose Connection has custom functions and aggregates, given
\* to the constructor, appended to its lists or registered afterwards;
\* scopes spawn its siblings
NextRegistry ==
    \/ \E k \in Kinds : \E f \in Callables[k] : AppendCallable(k, f)
    \/ \E k \in Kinds : \E f \in Callables[k] : AddCallable(f)
    \/ \E gc \in BOOLEAN : DatabaseReconnect(gc)
    \/ \E silent, newc, excl \in BOOLEAN : TransactionEnter(silent, newc, excl)
    \/ \E fail1, fail2 \in BOOLEAN : TransactionExitDone(fail1, fail2)

SpecRegistry == InitRegistry /\ [][NextRegistry]_vars

\* ----------------------------------------------- the database file dropped
\* one-shot statements and lifecycle calls on a Database whose file is
\* dropped and recreated (TestContainer.setup and teardown)
NextRecreate ==
    \/ DatabaseExecute
    \/ DatabaseQuery
    \/ \E fail \in BOOLEAN : DatabaseClose(fail)
    \/ \E gc \in BOOLEAN : DatabaseReconnect(gc)
    \/ \E p \in Paths, fail \in BOOLEAN : DatabaseDrop(p, fail)
    \/ \E p \in Paths, fail, gc \in BOOLEAN : DatabaseRecreate(p, fail, gc)

SpecRecreate == Init /\ [][NextRecreate]_vars

\* ------------------------------------- statements given with arguments
\* The calls above are a write or a SELECT that fits.  Below, the methods of
\* Cursor and Database are called with a query and arguments as the caller
\* gives them.
MaxParams == 1         \* positional arguments given to one call
MaxCursors == 2        \* Cursor objects made by these calls

SELECT == "SELECT * FROM foo;"

INSERT == "INSERT INTO foo VALUES (?);"

Texts == {SELECT, INSERT}

\* the '?' placeholders of a statement
Placeholders(sql) == IF sql.text = INSERT THEN 1 ELSE 0

\* a str
Str(t) == [type |-> "str", text |-> t]

\* a value that is no str and has no serialize()
NotStr == [type |-> "int", text |-> "1"]

Plain == {Str(t) : t \in Texts} \cup {NotStr}

\* a sqlize expression: ser is what its serialize() returns
Expr(v) == [type |-> "Select", text |-> "", ser |-> v]

Qrys == Plain \cup {Expr(v) : v \in {Str(SELECT), NotStr}}

\* a value given as an argument that is no tuple, list or dict
ParamVals == {[kind |-> "int", items |-> <<>>]}

Names == {"a"}

\* *params as the method receives it, **kwparams as the method receives it
Tuple(t) == [kind |-> "tuple", items |-> t]

Dict(d) == [kind |-> "dict", items |-> d]

Tuples == {Tuple(t) : t \in UNION {[1..n -> ParamVals] : n \in 0..MaxParams}}

Dicts == {Dict(d) : d \in UNION {[N -> ParamVals] : N \in SUBSET Names}}

\* the parameters of one '?': (1,)
OneParam == Tuple(<<CHOOSE v \in ParamVals : TRUE>>)

\* a sequence of parameters for executemany: [(1,)]
ParamList == [kind |-> "list", items |-> <<OneParam>>]

\* *args given to execute: none, the parameters, one argument too many
ExecuteArgs == {Tuple(<<>>), Tuple(<<OneParam>>), Tuple(<<OneParam, OneParam>>)}

\* *args given to executemany: none, the sequence of parameters
ExecutemanyArgs == {Tuple(<<>>), Tuple(<<ParamList>>)}

\* bool(x) of a tuple or dict
Truthy(x) == x.items # <<>>

HasSerialize(qry) == qry.type = "Select"

IsString(qry) == qry.type = "str"

\* (mutant) the assert is left out
ConvertQueryNoAssert(qry) ==
    [qry |-> IF HasSerialize(qry) THEN qry.ser ELSE qry, err |-> NoErr]

\* convert_query: the query handed on to the wrapped method, or the error
\* of the assert
ConvertQuery(qry) ==
    LET q == IF HasSerialize(qry) THEN qry.ser ELSE qry
    IN  [qry |-> q, err |-> IF IsString(q) THEN NoErr ELSE "AssertionError"]

\* (mutant) the named arguments win over the positional ones
QueryParamsNamedFirst(params, kwparams) ==
    IF Truthy(kwparams) THEN kwparams ELSE params

\* Cursor.query: params or kwparams
QueryParams(params, kwparams) ==
    IF Truthy(params) THEN params ELSE kwparams

\* what Cursor object k called its sqlite3 cursor with, noted on the call
\* just logged
Sent(S, k, method, sql, args, kwargs) ==
    [S EXCEPT !.calls[Len(S.calls)] =
        @ @@ [cur |-> k.id, method |-> method, sql |-> sql, args |-> args,
              kwargs |-> kwargs]]

\* the parameters that args, the positional arguments after sql, give the
\* statement: none when there is no argument
Parameters(args) ==
    IF args.items = <<>> THEN Tuple(<<>>) ELSE args.items[1]

\* the parameters are the ones the placeholders of sql ask for: a sequence
\* of as many values, or a dict when there is no '?'
Fits(sql, p) ==
    \/ p.kind = "tuple" /\ Len(p.items) = Placeholders(sql)
    \/ p.kind = "dict" /\ Placeholders(sql) = 0

\* the statement sql runs on handle h with parameters p
SqlStatement(S, h, c, by, sql, p) ==
    IF S.H[h].st = "open" /\ ~Fits(sql, p)
    THEN Raise(Log(S, h, c, by, "bind", FALSE), "ProgrammingError")
    ELSE IF sql.text = INSERT THEN SqlWrite(S, h, c, by, 1)
    ELSE SqlRead(S, h, c, by)

\* sqlite3's cursor.execute(sql, *args, **kwargs): one parameter collection
\* at most, no keyword arguments
SqlExecuteArgs(S, k, by, sql, args, kwargs) ==
    Sent(IF Len(args.items) > 1 \/ Truthy(kwargs) \/ ~IsString(sql)
         THEN Raise(Log(S, k.h, k.conn, by, "rejected", FALSE), "TypeError")
         ELSE SqlStatement(S, k.h, k.conn, by, sql, Parameters(args)),
         k, "execute", sql, args, kwargs)

\* sqlite3's cursor.executemany(sql, *args, **kwargs): one sequence of
\* parameters, for a statement that is no SELECT, run once for each
SqlExecutemanyArgs(S, k, by, sql, args, kwargs) ==
    Sent(IF Len(args.items) # 1 \/ Truthy(kwargs) \/ ~IsString(sql)
         THEN Raise(Log(S, k.h, k.conn, by, "rejected", FALSE), "TypeError")
         ELSE IF S.H[k.h].st = "open" /\ sql.text = SELECT
         THEN Raise(Log(S, k.h, k.conn, by, "rejected", FALSE),
                    "ProgrammingError")
         ELSE SqlStatement(S, k.h, k.conn, by, sql, args.items[1].items[1]),
         k, "executemany", sql, args, kwargs)

\* sqlite3's cursor.executescript(sql); implicit: this sqlite3 module commits
\* a transaction that is open before it runs the script (Python 3.6 and
\* later do for one begun by hand)
SqlExecutescript(S, k, by, sql, implicit) ==
    IF ~IsString(sql)
    THEN Sent(Raise(Log(S, k.h, k.conn, by, "rejected", FALSE), "TypeError"),
              k, "executescript", sql, Tuple(<<>>), Dict(<<>>))
    ELSE LET S1 == IF /\ implicit
                      /\ S.H[k.h].st = "open"
                      /\ S.H[k.h].txn # "none"
                   THEN SqlCommit(S, k.h, k.conn, "sqlite3", FALSE)
                   ELSE S
         IN  Sent(SqlStatement(S1, k.h, k.conn, by, sql, Tuple(<<>>)),
                  k, "executescript", sql, Tuple(<<>>), Dict(<<>>))

\* Cursor.query on Cursor object k
CursorQueryArgs(S, k, qry, params, kwparams) ==
    LET q == ConvertQuery(qry)
    IN  IF q.err # NoErr THEN Raise(S, q.err)
        ELSE SqlExecuteArgs(S, k, "query", q.qry,
                            Tuple(<<QueryParams(params, kwparams)>>),
                            Dict(<<>>))

\* Cursor.execute
CursorExecuteArgs(S, k, qry, args, kwargs) ==
    LET q == ConvertQuery(qry)
    IN  IF q.err # NoErr THEN Raise(S, q.err)
        ELSE SqlExecuteArgs(S, k, "execute", q.qry, args, kwargs)

\* Cursor.executemany
CursorExecutemanyArgs(S, k, qry, args, kwargs) ==
    LET q == ConvertQuery(qry)
    IN  IF q.err # NoErr THEN Raise(S, q.err)
        ELSE SqlExecutemanyArgs(S, k, "executemany", q.qry, args, kwargs)

\* Cursor.executescript
CursorExecutescriptArgs(S, k, sql, implicit) ==
    SqlExecutescript(S, k, "executescript", sql, implicit)

\* (mutant) the Database keeps the Cursor it made first and uses it again
DatabaseCursorKept(S, made) ==
    IF made = <<>>
    THEN [id |-> 1, conn |-> PRIMARY, h |-> S.K[PRIMARY]]
    ELSE made[1]

\* Database.cursor(): a new Cursor object on the primary; made are the
\* Cursor objects made before
DatabaseCursor(S, made) ==
    [id |-> Len(made) + 1, conn |-> PRIMARY, h |-> S.K[PRIMARY]]

\* Database.query
DatabaseQueryArgs(S, made, qry, params, kwparams) ==
    LET S1 == CursorInit(S, PRIMARY)
    IN  IF Ok(S1)
        THEN CursorQueryArgs(S1, DatabaseCursor(S1, made), qry, params,
                             kwparams)
        ELSE S1

\* Database.execute
DatabaseExecuteArgs(S, made, qry, args, kwargs) ==
    LET S1 == CursorInit(S, PRIMARY)
    IN  IF Ok(S1)
        THEN CursorExecuteArgs(S1, DatabaseCursor(S1, made), qry, args,
                               kwargs)
        ELSE S1

\* Database.executemany
DatabaseExecutemanyArgs(S, made, qry, args, kwargs) ==
    LET S1 == CursorInit(S, PRIMARY)
    IN  IF Ok(S1)
        THEN CursorExecutemanyArgs(S1, DatabaseCursor(S1, made), qry, args,
                                   kwargs)
        ELSE S1

\* Database.executescript
DatabaseExecutescriptArgs(S, made, sql, implicit) ==
    LET S1 == CursorInit(S, PRIMARY)
    IN  IF Ok(S1)
        THEN CursorExecutescriptArgs(S1, DatabaseCursor(S1, made), sql,
                                     implicit)
        ELSE S1

\* the call fn(qry, *args, **kwargs) on the Database gave S: the Cursor it
\* made is kept, and is what the call returns
StoreCall(S, fn, qry, args, kwargs) ==
    LET k == DatabaseCursor(St, cursors)
        made == S.calls # <<>> /\ S.calls[1].stmt = "cursor" /\ S.calls[1].ok
    IN  /\ handles' = S.H
        /\ committed' = S.C
        /\ cursors' = IF made /\ k.id > Len(cursors)
                      THEN Append(cursors, k)
                      ELSE cursors
        /\ call' = [fn |-> fn, qry |-> qry, args |-> args, kwargs |-> kwargs,
                    calls |-> S.calls, err |-> S.err,
                    out |-> IF Ok(S) THEN "return" ELSE "raise",
                    ret |-> IF Ok(S) THEN k.id ELSE 0,
                    before |-> Len(cursors),
                    changed |-> S.H # handles \/ S.C # committed]
        /\ UNCHANGED <<registry, file, path, connHandle, nconns, scopes, nwrites,
                       closeCalled, sib, last, mig>>

\* db.query(qry, *params, **kwparams)
QueryCall(qry, params, kwparams) ==
    /\ Len(cursors) < MaxCursors
    /\ StoreCall(DatabaseQueryArgs(St, cursors, qry, params, kwparams),
                 "query", qry, params, kwparams)

\* db.execute(qry, *args, **kwargs)
ExecuteCall(qry, args, kwargs) ==
    /\ Len(cursors) < MaxCursors
    /\ StoreCall(DatabaseExecuteArgs(St, cursors, qry, args, kwargs),
                 "execute", qry, args, kwargs)

\* db.executemany(qry, *args, **kwargs)
ExecutemanyCall(qry, args, kwargs) ==
    /\ Len(cursors) < MaxCursors
    /\ StoreCall(DatabaseExecutemanyArgs(St, cursors, qry, args, kwargs),
                 "executemany", qry, args, kwargs)

\* db.executescript(sql)
ExecutescriptCall(sql, implicit) ==
    /\ Len(cursors) < MaxCursors
    /\ StoreCall(DatabaseExecutescriptArgs(St, cursors, sql, implicit),
                 "executescript", sql, Tuple(<<>>), Dict(<<>>))

NextQuery ==
    \/ \E qry \in Qrys, params \in Tuples, kwparams \in Dicts :
          QueryCall(qry, params, kwparams)
    \/ \E qry \in Qrys, args \in ExecuteArgs, kwargs \in Dicts :
          ExecuteCall(qry, args, kwargs)
    \/ \E qry \in Qrys, args \in ExecutemanyArgs, kwargs \in Dicts :
          ExecutemanyCall(qry, args, kwargs)
    \/ \E sql \in Plain, implicit \in BOOLEAN :
          ExecutescriptCall(sql, implicit)
    \/ AcquireLock
    \/ \E fail \in BOOLEAN : DatabaseClose(fail)
    \/ DatabaseReconnect(TRUE)

\* the Database used through its one-shot statement methods, by a caller who
\* keeps no Cursor of a handle that reconnect() replaces
SpecQuery == Init /\ [][NextQuery]_vars

\* --------------------------------------------------------------------- Row
MaxCols == 2           \* columns of a fetched row

\* column names; "keys" is also the name of a method of sqlite3.Row
ColNames == {"bar", "BAR", "keys"}

ColVals == {1, 2}

\* the default given to Row.get, and a bound method, as values
Default == 0

Method == 0 - 1

\* a fetched row: its columns in order, each a name and a value
Rows ==
    UNION {[1..n -> [name : ColNames, val : ColVals]] : n \in 1..MaxCols}

\* the keys a caller asks a row for
Keys == ColNames \cup {"missing"}

\* sqlite3.Row compares a name with the column names without regard to case
Fold(name) == IF name = "BAR" THEN "bar" ELSE name

Returns(v) == [out |-> "return", err |-> NoErr, val |-> v]

Raises(e) == [out |-> "raise", err |-> e, val |-> Default]

\* the attributes found on a Row before __getattr__ is tried
RowAttrs == {"keys", "get"}

\* sqlite3.Row.keys()
RowKeys(row) == {row[i].name : i \in 1..Len(row)}

\* sqlite3.Row.__getitem__ with a name: the first column whose name is the
\* key but for case, IndexError when there is none
RowGetitem(row, key) ==
    LET at == {i \in 1..Len(row) : Fold(row[i].name) = Fold(key)}
    IN  IF at = {} THEN Raises("IndexError")
        ELSE Returns(row[CHOOSE i \in at : \A j \in at : i <= j].val)

\* sqlite3.Row.__getitem__ with a position (counted from 1 here)
RowGetitemAt(row, i) ==
    IF i \in 1..Len(row) THEN Returns(row[i].val) ELSE Raises("IndexError")

\* row.<key>: Row.__getattr__ is called for a name that is no attribute
RowGetattr(row, key) ==
    IF key \in RowAttrs THEN Returns(Method) ELSE RowGetitem(row, key)

\* Row.get
RowGet(row, key, default) ==
    LET r == RowGetitem(row, key)
    IN  IF r.err = "IndexError" THEN Returns(default) ELSE r

\* Row.__contains__
RowContains(row, key) == key \in RowKeys(row)

\* cursor.result gives a row of the primary connection's row factory
FetchRow(row) ==
    /\ handles[connHandle[PRIMARY]].st = "open"
    /\ call' = [fn |-> "fetch", row |-> row]
    /\ UNCHANGED <<registry, file, path, handles, committed, connHandle, nconns,
                   scopes, nwrites, closeCalled, sib, last, cursors, mig>>

HasRow == call.fn \in {"fetch", "get", "getattr", "getitem", "index", "in"}

\* the access fn with key (at position at, for row[i]) gave r
StoreAccess(fn, key, at, r) ==
    /\ HasRow
    /\ call' = [fn |-> fn, row |-> call.row, key |-> key, at |-> at,
                out |-> r.out, err |-> r.err, val |-> r.val,
                has |-> RowContains(call.row, key)]
    /\ UNCHANGED <<registry, file, path, handles, committed, connHandle, nconns,
                   scopes, nwrites, closeCalled, sib, last, cursors, mig>>

\* row.get(key, default)
GetAccess(key) == StoreAccess("get", key, 0, RowGet(call.row, key, Default))

\* row.<key>
AttrAccess(key) == StoreAccess("getattr", key, 0, RowGetattr(call.row, key))

\* row[key]
ItemAccess(key) == StoreAccess("getitem", key, 0, RowGetitem(call.row, key))

\* row[i]
IndexAccess(i) ==
    /\ HasRow
    /\ i \in 1..Len(call.row)
    /\ StoreAccess("index", call.row[i].name, i, RowGetitemAt(call.row, i))

\* key in row
InAccess(key) == StoreAccess("in", key, 0, Returns(Default))

NextRow ==
    \/ \E row \in Rows : FetchRow(row)
    \/ \E key \in Keys : GetAccess(key)
    \/ \E key \in Keys : AttrAccess(key)
    \/ \E key \in Keys : ItemAccess(key)
    \/ \E i \in 1..MaxCols : IndexAccess(i)
    \/ \E key \in Keys : InAccess(key)

\* rows fetched from the Database and looked into
SpecRow == Init /\ [][NextRow]_vars

\* what a query on the primary Connection returns now
PrimaryView == View(handles, committed, connHandle[PRIMARY])

\* ------------------------------------------------------ migration runner
\* squery_lite/migrations.py is not part of the source at hand: the runner
\* is modelled from its specification (section 4.4), on the Database
\* modelled above.  Rows in the database: the tracking table, the row that
\* records version u in it, what the script of unit u writes.
TrackingTable == 100

TrackingRow(u) == 100 + u

ScriptRow(u) == 200 + u

\* (mutant) the tracking table is not looked at
AppliedNever(S, u) == FALSE

\* unit u is recorded as applied in the tracking table
Applied(S, u) == TrackingRow(u) \in View(S.H, S.C, S.K[PRIMARY])

\* the tracking table is created when it is absent, before the first check
EnsureTracking(S) ==
    IF TrackingTable \in View(S.H, S.C, S.K[PRIMARY]) THEN S
    ELSE DatabaseExecuteCall(S, TrackingTable)

\* the transaction() scope a unit runs in
UnitScope(S) ==
    [conn |-> PRIMARY, cur |-> S.K[PRIMARY], silent |-> FALSE,
     newc |-> FALSE, wrote |-> {}]

\* one pending unit: open a transaction, execute its script, record it as
\* applied, commit; fails: the script fails (after it has written), and
\* the transaction is rolled back
MigrateUnit(S, u, fails) ==
    LET S1 == TransactionBegin(S, FALSE, FALSE)
        S2 == IF Ok(S1)
              THEN SqlWrite(S1, S1.K[PRIMARY], PRIMARY, "migrate",
                            ScriptRow(u))
              ELSE S1
        S3 == IF Ok(S2) /\ ~fails
              THEN SqlWrite(S2, S2.K[PRIMARY], PRIMARY, "migrate",
                            TrackingRow(u))
              ELSE S2
    IN  IF ~Ok(S1) THEN S1
        ELSE TransactionEnd(Raise(S3, NoErr), UnitScope(S3),
                            IF fails \/ ~Ok(S3) THEN "OperationalError"
                            ELSE NoErr, FALSE, FALSE)

\* the state of a run: the Database, the units 1..source of the migration
\* source, the units tried in order, how often each unit was applied so far,
\* the error that ended the run and the version it names
\* the pending unit u is tried: a failure of its script is reported as a
\* MigrationError that names the version
MigrateTry(R, u, fails) ==
    LET S1 == MigrateUnit(R.S, u, fails)
    IN  [S |-> Raise(S1, NoErr), source |-> R.source,
         tried |-> Append(R.tried, u),
         times |-> IF Ok(S1) THEN [R.times EXCEPT ![u] = @ + 1]
                   ELSE R.times,
         err |-> IF Ok(S1) THEN NoErr ELSE "MigrationError",
         version |-> IF Ok(S1) THEN 0 ELSE u]

RECURSIVE MigrateGoOn(_, _, _)

\* (mutant) the run goes on with the next unit after one that failed
MigrateGoOn(R, u, F) ==
    IF u > R.source THEN R
    ELSE IF Applied(R.S, u) THEN MigrateGoOn(R, u + 1, F)
    ELSE CHOOSE r \in {MigrateGoOn(
                           [t EXCEPT
                              !.err = IF R.err # NoErr THEN R.err ELSE @,
                              !.version = IF R.version # 0 THEN R.version
                                          ELSE @],
                           u + 1, F) :
                         t \in {MigrateTry(R, u, u \in F)}} : TRUE

RECURSIVE MigrateFrom(_, _, _)

\* the units from u on, in version order: a unit that is recorded is
\* skipped, a pending one is tried, and a failure ends the run
MigrateFrom(R, u, F) ==
    IF u > R.source THEN R
    ELSE IF Applied(R.S, u) THEN MigrateFrom(R, u + 1, F)
    ELSE CHOOSE r \in {IF t.err = NoErr THEN MigrateFrom(t, u + 1, F) ELSE t :
                         t \in {MigrateTry(R, u, u \in F)}} : TRUE

\* the tracking rows a query on the primary connection sees
Tracked == {u \in Units : TrackingRow(u) \in PrimaryView}

\* Database.migrate(db, migrations, conf); F: the units whose script fails
\* in this run
Migrate(F) ==
    /\ mig.runs < MaxRuns
    /\ scopes = <<>>
    /\ \E S0 \in {EnsureTracking(St)} :
       \E R \in {IF Ok(S0)
                 THEN MigrateFrom([S |-> Raise(S0, NoErr),
                                   source |-> mig.source, tried |-> <<>>,
                                   times |-> mig.times, err |-> NoErr,
                                   version |-> 0], 1, F)
                 ELSE [S |-> S0, source |-> mig.source, tried |-> <<>>,
                       times |-> mig.times, err |-> S0.err,
                       version |-> 0]} :
           /\ handles' = R.S.H
           /\ committed' = R.S.C
           /\ mig' = [source |-> mig.source, runs |-> mig.runs + 1,
                      tried |-> R.tried, times |-> R.times, err |-> R.err,
                      version |-> R.version, prevErr |-> mig.err,
                      prevVersion |-> mig.version, prevSource |-> mig.ranOn,
                      ranOn |-> mig.source, before |-> Tracked]
    /\ UNCHANGED <<registry, file, path, connHandle, nconns, scopes, nwrites,
                   closeCalled, sib, last, cursors, call>>

\* a unit is added to the migration source, with the next version
AddUnit ==
    /\ mig.source < MaxUnits
    /\ mig' = [mig EXCEPT !.source = @ + 1]
    /\ UNCHANGED <<registry, file, path, handles, committed, connHandle, nconns,
                   scopes, nwrites, closeCalled, sib, last, cursors, call>>

NextMigrate ==
    \/ \E F \in SUBSET Units : Migrate(F)
    \/ AddUnit

\* the migration runner run again and again on one Database, as the
\* migration source grows
SpecMigrate == Init /\ [][NextMigrate]_vars

\* ------------------------------------------------------------------ claims
ByTransaction(x) == x.by = "transaction"

ByClose(x) == x.by = "close"

ByConnect(x) == x.by = "connect" /\ x.stmt = "connect"

\* the calls Database.transaction itself sent in the operation just made
ScopeCalls == SelectSeq(last.calls, ByTransaction)

IsExit == last.op = "TransactionExit"

IsEnter == last.op = "TransactionEnter"

\* call x is statement stmt sent to the Connection of the operation just made
OnChosen(x, stmt) ==
    x.stmt = stmt /\ x.c = last.conn /\ x.h = connHandle[last.conn]

\* C1 (as stated): when the body of a transaction() scope completes without
\* raising, a commit is issued on the chosen connection after the body and
\* no rollback is issued on it.
C1_AsStated ==
    (IsExit /\ last.bodyErr = NoErr) =>
        /\ ScopeCalls # <<>>
        /\ OnChosen(ScopeCalls[1], "commit")
        /\ \A i \in 1..Len(last.calls) : last.calls[i].stmt # "rollback"

\* C1 (amended): when the body completes without raising, the first call of
\* the scope is a commit on the chosen connection; a rollback is issued on
\* it exactly when that commit fails, and then as the next call.
C1_CommitOnCompletion ==
    (IsExit /\ last.bodyErr = NoErr) =>
        /\ ScopeCalls # <<>>
        /\ last.calls[1] = ScopeCalls[1]
        /\ OnChosen(ScopeCalls[1], "commit")
        /\ ScopeCalls[1].ok => Len(ScopeCalls) = 1
        /\ ~ScopeCalls[1].ok =>
              /\ Len(ScopeCalls) = 2
              /\ OnChosen(ScopeCalls[2], "rollback")
        /\ \A i \in 1..Len(last.calls) :
              last.calls[i].stmt = "rollback" =>
                  i = 2 /\ ~ScopeCalls[1].ok

C1_Witness ==
    /\ IsExit
    /\ last.bodyErr = NoErr
    /\ last.wrote # {}
    /\ ScopeCalls[1].ok
    /\ last.out = "return"

C4_SiblingClosed ==
    /\ \A c \in Conns :
          sib[c] = "released" => handles[connHandle[c]].st = "closed"
    /\ (IsExit /\ last.newc) =>
          /\ sib[last.conn] = "released"
          /\ last.calls[Len(last.calls)].stmt = "close"
          /\ last.calls[Len(last.calls)].h = connHandle[last.conn]
    /\ (last.op = "UseConnection" /\ sib[last.conn] = "released") =>
          /\ last.out = "raise"
          /\ ~last.changed

C4_Witness ==
    /\ last.op = "UseConnection"
    /\ sib[last.conn] = "released"
    /\ last.out = "raise"
    /\ handles[connHandle[PRIMARY]].st = "open"

PrimaryOpen == handles[connHandle[PRIMARY]].st = "open"

\* the scope just left committed: its commit was sent and accepted
ScopeCommitted ==
    /\ ScopeCalls # <<>>
    /\ ScopeCalls[1].stmt = "commit"
    /\ ScopeCalls[1].ok

\* C5 (as stated): after a scope that committed, every write made through
\* its cursor is visible to a query on the primary connection; after a scope
\* that rolled back, none is.
C5_AsStated ==
    (IsExit /\ PrimaryOpen) =>
        /\ ScopeCommitted => last.wrote \subseteq PrimaryView
        /\ ~ScopeCommitted => last.wrote \cap PrimaryView = {}

\* C6: before the body gets the cursor, transaction() sends one statement
\* through it, on the chosen connection: 'BEGIN EXCLUSIVE;' when exclusive
\* is set and 'BEGIN;' otherwise; it is the last call before the yield.
C6_BeginOnce ==
    IsEnter =>
        /\ Len(ScopeCalls) <= 1
        /\ ScopeCalls # <<>> =>
              /\ OnChosen(ScopeCalls[1],
                          IF last.excl THEN "BEGIN EXCLUSIVE;" ELSE "BEGIN;")
              /\ last.calls[Len(last.calls)] = ScopeCalls[1]
              /\ ScopeCalls[1].ok <=> last.out = "return"
        /\ last.out = "return" =>
              /\ Len(ScopeCalls) = 1
              /\ scopes # <<>>
              /\ Top.conn = last.conn
              /\ Top.wrote = {}

C6_Witness ==
    /\ IsEnter
    /\ last.excl
    /\ last.out = "return"
    /\ ScopeCalls[1].stmt = "BEGIN EXCLUSIVE;"

\* a step that enters or leaves a scope: without new_connection it works on
\* the primary and sends it no close; with new_connection it works on another
\* Connection object of the same path, sends the primary nothing and leaves
\* the primary's handle, with the transaction open on it, as it was
C7_Step ==
    (last'.op \in {"TransactionEnter", "TransactionExit"}) =>
        IF last'.newc
        THEN /\ last'.conn # PRIMARY
             /\ path'[last'.conn] = path[PRIMARY]
             /\ \A i \in 1..Len(last'.calls) :
                   /\ last'.calls[i].c # PRIMARY
                   /\ last'.calls[i].h # connHandle[PRIMARY]
             /\ connHandle'[PRIMARY] = connHandle[PRIMARY]
             /\ handles'[connHandle[PRIMARY]] = handles[connHandle[PRIMARY]]
        ELSE /\ last'.conn = PRIMARY
             /\ \A i \in 1..Len(last'.calls) :
                   /\ last'.calls[i].c = PRIMARY
                   /\ last'.calls[i].stmt # "close"
             /\ connHandle'[PRIMARY] = connHandle[PRIMARY]
             /\ handles'[connHandle[PRIMARY]].st
                    = handles[connHandle[PRIMARY]].st

\* C7: without new_connection the cursor is bound to the primary connection,
\* which the scope never closes; with new_connection=True it is bound to a
\* different Connection of the same path and the scope issues nothing on the
\* primary, whose open transaction stays as it was.
C7_PrimaryUntouched == [][C7_Step]_vars

C7_Witness ==
    /\ IsExit
    /\ last.newc
    /\ PrimaryOpen
    /\ handles[connHandle[PRIMARY]].txn = "write"
    /\ handles[connHandle[PRIMARY]].pend # {}

\* C8: Connection.close() sends commit to the handle and then close: a close
\* is sent only right after a commit that was accepted, and an accepted
\* commit of close() is followed by the close.
C8_CommitBeforeClose ==
    \A i \in 1..Len(last.calls) :
        LET x == last.calls[i]
        IN  /\ (ByClose(x) /\ x.stmt = "close") =>
                  /\ i > 1
                  /\ ByClose(last.calls[i - 1])
                  /\ last.calls[i - 1].stmt = "commit"
                  /\ last.calls[i - 1].ok
                  /\ last.calls[i - 1].h = x.h
            /\ (ByClose(x) /\ x.stmt = "commit" /\ x.ok) =>
                  /\ i < Len(last.calls)
                  /\ ByClose(last.calls[i + 1])
                  /\ last.calls[i + 1].stmt = "close"
                  /\ last.calls[i + 1].h = x.h
                  /\ handles[x.h].st = "closed"

C8_Witness ==
    /\ last.op = "DatabaseClose"
    /\ last.out = "return"
    /\ Len(last.calls) = 2
    /\ committed[0] # {}

\* the operation just made is a use of Connection last.conn: a cursor made
\* on it, a statement, commit, rollback or close
UsesConn ==
    \/ last.op \in {"DatabaseExecute", "DatabaseQuery", "AcquireLock",
                    "DatabaseCommit", "DatabaseRollback", "DatabaseClose",
                    "UseConnection"}
    \/ IsEnter /\ ~last.newc

C10_AsStated ==
    \A c \in Conns :
        (connHandle[c] # 0 /\ handles[connHandle[c]].st = "open") =>
            /\ handles[connHandle[c]].iso = "manual"
            /\ handles[connHandle[c]].jm = "wal"

\* the handles that are open
OpenHandles(H) == {h \in Handles : H[h].st = "open"}

\* a step in which Connection.new() is called (by transaction() with
\* new_connection=True, on the primary): one handle more is open, it is the
\* handle of a Connection object made in this step, other than the receiver
\* and of the receiver's path, and the receiver keeps its path and its
\* handle, which is as it was
C11_Step ==
    (last'.op = "TransactionEnter" /\ last'.newc) =>
        LET c == nconns' IN
        /\ nconns' = nconns + 1
        /\ c # PRIMARY
        /\ path[c] = "none"
        /\ path'[c] = path[PRIMARY]
        /\ OpenHandles(handles) \subseteq OpenHandles(handles')
        /\ OpenHandles(handles') \ OpenHandles(handles) = {connHandle'[c]}
        /\ handles[connHandle'[c]].st = "unused"
        /\ \A d \in Conns \ {c} :
              path'[d] = path[d] /\ connHandle'[d] = connHandle[d]
        /\ \A h \in Handles \ {connHandle'[c]} : handles'[h] = handles[h]
        /\ Len(SelectSeq(last'.calls, ByConnect)) = 1

\* C11: Connection.new() opens one more handle and returns a Connection
\* object other than the receiver with the receiver's path; the receiver is
\* not closed, reconfigured or changed in any way.
C11_NewConnection == [][C11_Step]_vars

C11_Witness ==
    /\ IsEnter
    /\ last.newc
    /\ path[last.conn] = FILE
    /\ handles[connHandle[PRIMARY]].txn = "write"
    /\ handles[connHandle[last.conn]].st = "open"

\* a step of acquire_lock(): after the Cursor is made on the primary, the one
\* thing sent is 'BEGIN EXCLUSIVE;' on the primary's handle; when it is
\* accepted the only change is that the exclusive transaction is open there,
\* and when it is refused nothing changes.  Any step: a transaction that
\* holds the write lock on a handle that stays open is still there after the
\* step unless the step had a commit or a rollback accepted on that handle.
C15_Step ==
    LET h == connHandle[PRIMARY]
        n == Len(last'.calls)
    IN  /\ (last'.op = "AcquireLock") =>
              /\ n \in {1, 2}
              /\ \A i \in 1..n :
                    last'.calls[i].c = PRIMARY /\ last'.calls[i].h = h
              /\ last'.calls[1].stmt = "cursor"
              /\ n = 1 => ~last'.calls[1].ok
              /\ n = 2 =>
                    /\ last'.calls[2].stmt = "BEGIN EXCLUSIVE;"
                    /\ last'.calls[2].by = "acquire_lock"
                    /\ last'.calls[2].ok <=> last'.out = "return"
              /\ committed' = committed
              /\ connHandle' = connHandle
              /\ handles' = IF last'.out = "return"
                            THEN [handles EXCEPT ![h].txn = "write"]
                            ELSE handles
        /\ \A g \in Handles :
              (/\ handles[g].st = "open"
               /\ handles[g].txn = "write"
               /\ handles'[g].st = "open"
               /\ handles'[g] # handles[g]
               /\ handles'[g].txn # "write") =>
                  \E i \in 1..n :
                      /\ last'.calls[i].h = g
                      /\ last'.calls[i].stmt \in {"commit", "rollback"}
                      /\ last'.calls[i].ok

\* C15: acquire_lock() sends exactly one statement, 'BEGIN EXCLUSIVE;', on
\* the primary connection, and no commit or rollback: the exclusive
\* transaction stays open on it until a commit or rollback is sent.
C15_BareExclusive == [][C15_Step]_vars

C15_Witness ==
    /\ last.op = "DatabaseExecute"
    /\ last.out = "return"
    /\ scopes = <<>>
    /\ handles[connHandle[PRIMARY]].txn = "write"
    /\ handles[connHandle[PRIMARY]].pend # {}

\* ------------------------------------------- claims on SpecQuery (call)
\* two argument collections are the same tuple or the same dict
SameObj(x, y) == x.kind = y.kind /\ x.items = y.items

\* the query is text, or serialize() gives text
Resolves(qry) ==
    IF HasSerialize(qry) THEN IsString(qry.ser) ELSE IsString(qry)

Resolved(qry) == IF HasSerialize(qry) THEN qry.ser ELSE qry

\* the call made its Cursor: connection.cursor() was accepted
CursorMade == call.calls # <<>> /\ call.calls[1].ok

\* C12: Database.query (through Cursor.query) hands the engine exactly one
\* parameter collection: the tuple of the positional arguments when there is
\* at least one (the named ones are then left out), otherwise the dict of
\* the named arguments, which is empty when no argument is given.
C12_OneCollection ==
    (call.fn = "query" /\ CursorMade /\ Resolves(call.qry)) =>
        /\ Len(call.calls) = 2
        /\ call.calls[2].method = "execute"
        /\ Len(call.calls[2].args.items) = 1
        /\ ~Truthy(call.calls[2].kwargs)
        /\ LET sent == call.calls[2].args.items[1]
           IN  IF Len(call.args.items) >= 1
               THEN SameObj(sent, call.args)
               ELSE SameObj(sent, call.kwargs)

C12_Witness ==
    /\ call.fn = "query"
    /\ Len(call.args.items) >= 1
    /\ Truthy(call.kwargs)
    /\ call.out = "return"
    /\ call.calls[2].args.items[1].kind = "tuple"

\* C13: query, execute and executemany hand the engine the text serialize()
\* gives for a query object that has serialize(), and a text query as it is;
\* when what results is no text the call fails with the error of the assert
\* and nothing was sent to the engine.
C13_ConvertQuery ==
    (call.fn \in {"query", "execute", "executemany"} /\ CursorMade) =>
        IF Resolves(call.qry)
        THEN /\ Len(call.calls) = 2
             /\ call.calls[2].sql = Resolved(call.qry)
        ELSE /\ call.out = "raise"
             /\ call.err = "AssertionError"
             /\ Len(call.calls) = 1
             /\ ~call.changed

C13_Witness ==
    /\ call.fn = "executemany"
    /\ HasSerialize(call.qry)
    /\ ~Resolves(call.qry)
    /\ call.out = "raise"
    /\ call.err = "AssertionError"

\* the statements that begin or end a transaction
TxnControl == {"BEGIN;", "BEGIN EXCLUSIVE;", "commit", "rollback"}

\* C14: each call of Database.query, execute, executemany or executescript
\* makes a new Cursor on the primary connection (not one made before), runs
\* its one statement on that Cursor and returns it; the method itself sends
\* no BEGIN, commit or rollback.
C14_FreshCursor ==
    (call.fn \in {"query", "execute", "executemany", "executescript"}) =>
        /\ call.calls # <<>>
        /\ call.calls[1].stmt = "cursor"
        /\ call.calls[1].c = PRIMARY
        /\ CursorMade =>
              /\ Len(cursors) > call.before
              /\ cursors[call.before + 1].id = call.before + 1
              /\ cursors[call.before + 1].conn = PRIMARY
              /\ cursors[call.before + 1].h = call.calls[1].h
        /\ \A i \in 2..Len(call.calls) :
              LET x == call.calls[i]
              IN  \/ /\ x.by = call.fn
                     /\ x.cur = call.before + 1
                     /\ x.c = PRIMARY
                     /\ x.h = call.calls[1].h
                     /\ x.stmt \notin TxnControl
                     /\ i = Len(call.calls)
                  \/ x.by = "sqlite3"
        /\ call.out = "return" =>
              /\ call.ret = call.before + 1
              /\ call.calls[Len(call.calls)].by = call.fn
              /\ call.calls[Len(call.calls)].ok

C14_Witness ==
    /\ call.fn = "executescript"
    /\ call.before = 1
    /\ call.out = "return"
    /\ call.ret = 2
    /\ cursors[2].h # cursors[1].h

\* ---------------------------------------------- claims on SpecRow (call)
\* the positions of the row looked into at which the column is named key
ColumnsNamed(key) == {i \in 1..Len(call.row) : call.row[i].name = key}

\* C16 (as stated): for every column name c at position i of a fetched row,
\* row.get(c), row.c, row[i] and row[c] give the value at position i and
\* 'c in row' is true; for a name m that is no column of the row,
\* row.get(m, d) gives d and 'm in row' is false.
C16_AsStated ==
    (call.fn \in {"get", "getattr", "getitem", "index", "in"}) =>
        /\ \A i \in ColumnsNamed(call.key) :
              /\ call.fn \in {"get", "getattr", "getitem"} =>
                    call.out = "return" /\ call.val = call.row[i].val
              /\ (call.fn = "index" /\ call.at = i) =>
                    call.out = "return" /\ call.val = call.row[i].val
              /\ call.fn = "in" => call.has
        /\ ColumnsNamed(call.key) = {} =>
              /\ call.fn = "get" =>
                    call.out = "return" /\ call.val = Default
              /\ call.fn = "in" => ~call.has

\* ------------------------------------------- claims on SpecMigrate (mig)
\* what the script of unit u wrote is in the database
ScriptDone(u) == ScriptRow(u) \in PrimaryView

Increasing(q) == \A i, j \in 1..Len(q) : i < j => q[i] < q[j]

\* C17: however often the runner is run, each unit is applied at most once,
\* in version order, and is recorded when it is; a run that ends without an
\* error leaves every unit of the source applied once, and a run on the same
\* source right after such a run applies nothing and leaves the tracking
\* table with the rows it had.
C17_Idempotent ==
    (mig.runs >= 1) =>
        /\ \A u \in Units :
              /\ mig.times[u] <= 1
              /\ mig.times[u] = 1 <=> u \in Tracked
              /\ mig.times[u] = 1 <=> ScriptDone(u)
        /\ Increasing(mig.tried)
        /\ mig.err = NoErr => Tracked = 1..mig.ranOn
        /\ (mig.runs >= 2 /\ mig.prevErr = NoErr
                /\ mig.prevSource = mig.ranOn) =>
              /\ mig.tried = <<>>
              /\ mig.err = NoErr
              /\ Tracked = mig.before

C17_Witness ==
    /\ mig.runs >= 2
    /\ mig.prevErr = NoErr
    /\ mig.prevSource = mig.ranOn
    /\ mig.ranOn >= 2
    /\ mig.tried = <<>>
    /\ Cardinality(Tracked) = mig.ranOn

\* C18: when the script of a unit fails, the run ends there with a
\* MigrationError that names its version: the unit's transaction is rolled
\* back (nothing of its script is in the database, no transaction is left
\* open) and it is not recorded, no later unit is tried, the units before it
\* are applied and recorded; the next run starts with the unit that failed.
C18_FailureAborts ==
    /\ mig.err # NoErr =>
          /\ mig.err = "MigrationError"
          /\ mig.tried # <<>>
          /\ mig.version = mig.tried[Len(mig.tried)]
          /\ mig.version \notin Tracked
          /\ ~ScriptDone(mig.version)
          /\ handles[connHandle[PRIMARY]].txn = "none"
          /\ handles[connHandle[PRIMARY]].pend = {}
          /\ \A u \in Units :
                /\ u > mig.version => u \notin Tracked /\ ~ScriptDone(u)
                /\ u < mig.version => u \in Tracked /\ ScriptDone(u)
          /\ mig.before \subseteq Tracked
    /\ (mig.runs >= 2 /\ mig.prevErr # NoErr) =>
          /\ mig.tried # <<>>
          /\ mig.tried[1] = mig.prevVersion

C18_Witness ==
    /\ mig.err = "MigrationError"
    /\ mig.version = 2
    /\ mig.tried = <<1, 2>>
    /\ mig.ranOn >= 3
    /\ Tracked = {1}

\* the operation just made gave the caller a Cursor of the primary's handle
GaveCursor ==
    /\ last.op \in {"DatabaseExecute", "DatabaseQuery", "AcquireLock"}
    /\ last.out = "return"

\* a step in which reconnect() returns, made right after an operation that
\* gave the caller a Cursor: Database.conn is the Connection object it was,
\* its handle is another one, which is open, and the handle it had is not
\* open any more
C19_Step ==
    (GaveCursor /\ last'.op = "DatabaseReconnect" /\ last'.out = "return") =>
        /\ last'.conn = PRIMARY
        /\ path'[PRIMARY] = path[PRIMARY]
        /\ connHandle'[PRIMARY] # connHandle[PRIMARY]
        /\ handles'[connHandle'[PRIMARY]].st = "open"
        /\ handles'[connHandle[PRIMARY]].st # "open"

\* C19 (as stated): a Database has one primary connection, and reconnect()
\* replaces its handle: afterwards one open handle belongs to the primary
\* connection and the handle it had before is no longer open.
C19_AsStated == [][C19_Step]_vars

\* a step in which recreate(path) is called: when it returns, the file
\* that was at the path is removed and a new, empty one is there, and the
\* handle of a primary connection made on that path is open, on the new
\* one; when it raises, the file is as it was and no handle was opened
C20_Step ==
    (last'.op = "DatabaseRecreate") =>
        IF last'.out = "return"
        THEN /\ file' \notin {file, NoFile}
             /\ committed'[file'] = {}
             /\ path[PRIMARY] = FILE =>
                   /\ handles'[connHandle'[PRIMARY]].st = "open"
                   /\ handles'[connHandle'[PRIMARY]].db = file'
        ELSE /\ file' = file
             /\ handles' = handles
             /\ SelectSeq(last'.calls, ByConnect) = <<>>

\* C20 (as stated): after recreate(path) succeeds the old database file is
\* removed and the primary connection is an open connection to the new
\* database at path, on which later operations act; if the file cannot be
\* removed, recreate fails and opens nothing.
C20_AsStated == [][C20_Step]_vars

\* call i of the operation just made is statement stmt on the handle of the
\* Connection of the operation
OnChosenAt(i, stmt) ==
    last.calls[i].stmt = stmt /\ last.calls[i].h = connHandle[last.conn]

\* C21 (as stated): when the body of a scope raises, whatever it raises,
\* no commit is sent to the chosen connection before a rollback was sent to
\* it (the commit of close() on a spawned connection included), and the
\* writes of the body are not committed.
C21_AsStated ==
    (IsExit /\ last.bodyErr # NoErr) =>
        /\ \A i \in 1..Len(last.calls) :
              OnChosenAt(i, "commit") =>
                  \E j \in 1..(i - 1) : OnChosenAt(j, "rollback")
        /\ \A d \in Dbs : last.wrote \cap committed[d] = {}

\* the commit the scope sent when its body was done was refused
CommitRefused ==
    /\ IsExit
    /\ last.bodyErr = NoErr
    /\ ScopeCalls # <<>>
    /\ ScopeCalls[1].stmt = "commit"
    /\ ~ScopeCalls[1].ok

\* C22 (as stated): when the commit at the end of a scope fails, a rollback
\* is sent to the same connection and the failure reaches the caller, with
\* silent or without: the scope does not return normally.
C22_AsStated ==
    CommitRefused =>
        /\ Len(ScopeCalls) = 2
        /\ OnChosen(ScopeCalls[2], "rollback")
        /\ last.out = "raise"

\* close() of the spawned Connection failed in the operation just made
CloseFailed ==
    \E i \in 1..Len(last.calls) : ByClose(last.calls[i]) /\ ~last.calls[i].ok

C24_AsStated ==
    /\ (IsExit /\ last.newc) =>
          handles[connHandle[last.conn]].st # "open"
    /\ (IsEnter /\ last.newc /\ last.out = "raise") =>
          /\ handles[connHandle[last.conn]].st # "open"
          /\ \A i \in 1..Len(scopes) : scopes[i].conn # last.conn
          /\ \A i \in 1..Len(last.calls) : last.calls[i].stmt # "commit"

\* a transaction() scope is open on the primary connection
OuterOpen == \E i \in 1..Len(scopes) : scopes[i].conn = PRIMARY

\* the operation just made is a transaction(new_connection=True,
\* exclusive=True) call in the body of a scope open on the primary
NestedExclusive == IsEnter /\ last.newc /\ last.excl /\ OuterOpen

\* the exclusive scope of spawned Connection c was entered / was left, in
\* the body of the scope on the primary
EnteredOn(c) == NestedExclusive /\ last.conn = c /\ last.out = "return"

LeftOn(c) == IsExit /\ last.newc /\ last.conn = c /\ OuterOpen

\* C25 (as stated): a transaction(new_connection=True, exclusive=True)
\* started in the body of a scope that is open on the primary connection
\* gets its lock without a lock error, whether the outer scope has read or
\* written, and its body runs and the scope is left while the outer scope
\* is still open.
C25_AsStated ==
    /\ [](NestedExclusive => last.out = "return")
    /\ \A c \in Conns \ {PRIMARY} : EnteredOn(c) ~> LeftOn(c)

\* C25 (amended): the call gets its lock exactly when no other connection
\* holds the write lock on the database: otherwise it ends with the
\* engine's lock error and its body is not entered.  A scope that was
\* entered is left while the outer scope is still open.
C25_NestedExclusive ==
    /\ [](NestedExclusive =>
            /\ last.out = "return"
                   <=> ~OtherWriter(handles, connHandle[last.conn])
            /\ last.out = "raise" =>
                   /\ last.err = "OperationalError"
                   /\ \A i \in 1..Len(scopes) : scopes[i].conn # last.conn)
    /\ \A c \in Conns \ {PRIMARY} : EnteredOn(c) ~> LeftOn(c)

C25_Witness ==
    /\ NestedExclusive
    /\ last.out = "return"
    /\ path[PRIMARY] = FILE
    /\ handles[connHandle[PRIMARY]].txn = "read"
    /\ handles[connHandle[last.conn]].txn = "write"

\* a sibling was just spawned for a scope: last.conn is the new Connection
Spawned ==
    /\ last.op = "TransactionEnter"
    /\ last.newc

\* C26 (as stated): a Connection that new() returned has empty lists of
\* functions and aggregates, and nothing that is registered on the original
\* connection is registered on it.
C26_AsStated ==
    Spawned =>
        /\ \A k \in Kinds : ListOf(registry, last.conn, k) = {}
        /\ registry.reg[connHandle[last.conn]] = {}

====
